---- MODULE Spec2Model ----
(***************************************************************************)
(* Model of the "Laila" chat handlers.                                     *)
(*   - the memory-backed serverless handler (OpenAI Responses API +        *)
(*     embeddings + optional Supabase memory), with its reply extractor;   *)
(*   - the two plain serverless handlers of api/chat.js;                   *)
(*   - the file-backed Express route POST /api/chat of api/chat.js.        *)
(* JavaScript values are tagged records [t, s]: t is the type tag and s    *)
(* the characters of a string (<<>> for every non-string).                 *)
(***************************************************************************)
EXTENDS Integers, Sequences, FiniteSets, TLC

VARIABLES
    variant,      \* which handler function serves the request
    env,          \* process environment: API key set?, Supabase client built?
    req,          \* the inbound request (method, body)
    pc,           \* position of the handler (which await it is suspended on)
    inflight,     \* external calls issued and not yet returned
    trace,        \* history of external calls: issue / return events
    embedding,    \* let embedding
    memories,     \* let memories
    openaiResp,   \* const openaiResp (the payload given to the extractor)
    reply,        \* const reply
    savedAudit,   \* let savedAudit
    savedMemory,  \* let savedMemory
    res,          \* the HTTP response written by the handler
    dbFile,       \* Express variant: content of data/laila_db.json
    errFile,      \* Express variant: content of data/laila_errors.json
    conn          \* Express variant: the requests being served, each with its
                  \* position, its inputs, its local db and its response

vars == <<variant, env, req, pc, inflight, trace, embedding, memories,
          openaiResp, reply, savedAudit, savedMemory, res, dbFile, errFile, conn>>

-----------------------------------------------------------------------------
(* Bounds *)

MaxBlocks == 2     \* most content blocks in output[0].content
MaxMemories == 2   \* most rows the memory store returns

-----------------------------------------------------------------------------
(* JavaScript values *)

\* the texts the inputs are drawn from: empty, whitespace-only, non-blank
\* needing no trimming, non-blank with whitespace on both sides
SampleStrings == {<<>>, <<" ">>, <<"a">>, <<" ", "b", " ">>}

Undef == [t |-> "undefined", s |-> <<>>]
Null == [t |-> "null", s |-> <<>>]
Str(s) == [t |-> "string", s |-> s]
\* an object with a text field holding the string s: { text: s }
ObjText(s) == [t |-> "object", s |-> s]
\* an object without a text field: {}
ObjNoText == [t |-> "objectNoText", s |-> <<>>]
JsTrue == [t |-> "true", s |-> <<>>]
JsFalse == [t |-> "false", s |-> <<>>]

IsSpace(c) == c = " "

\* String.prototype.trim
RECURSIVE TrimLeft(_)
TrimLeft(s) ==
    IF s = <<>> THEN <<>>
    ELSE IF IsSpace(Head(s)) THEN TrimLeft(Tail(s))
    ELSE s

RECURSIVE TrimRight(_)
TrimRight(s) ==
    IF s = <<>> THEN <<>>
    ELSE IF IsSpace(s[Len(s)]) THEN TrimRight(SubSeq(s, 1, Len(s) - 1))
    ELSE s

Trim(s) == TrimRight(TrimLeft(s))

\* typeof v === "string"
IsString(v) == v.t = "string"

\* JavaScript truthiness of a value
Truthy(v) ==
    \/ v.t = "string" /\ v.s # <<>>
    \/ v.t \in {"object", "objectNoText", "true"}

\* typeof v === "string" && v.trim()
NonBlankString(v) == IsString(v) /\ Trim(v.s) # <<>>

\* msg?.text for a value msg
TextOf(v) == IF v.t = "object" THEN Str(v.s) ELSE Undef

-----------------------------------------------------------------------------
(* Provider payloads.  nul: the payload is null; output_text: the top-level *)
(* field; hasContent/content: output[0].content when it is an array;        *)
(* choices: choices[0].message.content.                                     *)

BlockTypes == {"output_text", "text"}

Block(ty, tx) == [type |-> ty, text |-> tx]

Payload(ot, hc, blocks, ch) ==
    [nul |-> FALSE, output_text |-> ot, hasContent |-> hc, content |-> blocks,
     choices |-> ch]

NullPayload ==
    [nul |-> TRUE, output_text |-> Undef, hasContent |-> FALSE, content |-> <<>>,
     choices |-> Undef]

EmptyPayload == Payload(Undef, FALSE, <<>>, Undef)

\* the least index among idx, 0 when there is none (the first hit of a loop)
FirstBlock(idx) ==
    IF idx = {} THEN 0 ELSE CHOOSE i \in idx : \A j \in idx : i <= j

\* shape 1: top-level output_text
FromOutputText(data) ==
    IF NonBlankString(data.output_text) THEN Str(Trim(data.output_text.s))
    ELSE Null

\* shape 2: output[0].content blocks, a block tagged output_text first
FromBlocks(data) ==
    LET blocks == IF data.hasContent THEN data.content ELSE <<>>
        i1 == FirstBlock({i \in DOMAIN blocks :
                            /\ blocks[i].type = "output_text"
                            /\ NonBlankString(blocks[i].text)})
        i2 == FirstBlock({i \in DOMAIN blocks : NonBlankString(blocks[i].text)})
    IN  IF i1 # 0 THEN Str(Trim(blocks[i1].text.s))
        ELSE IF i2 # 0 THEN Str(Trim(blocks[i2].text.s))
        ELSE Null

\* shape 3: choices[0].message.content, a string or an object with a text field
FromChoices(data) ==
    IF Truthy(data.choices)
    THEN IF NonBlankString(data.choices) THEN Str(Trim(data.choices.s))
         ELSE IF Truthy(TextOf(data.choices))
              THEN Str(Trim(TextOf(data.choices).s))
         ELSE Null
    ELSE Null

\* the extractor with the legacy choices shape probed first
extractChoicesFirst(data) ==
    IF data.nul THEN Null
    ELSE IF FromChoices(data) # Null THEN FromChoices(data)
    ELSE IF FromOutputText(data) # Null THEN FromOutputText(data)
    ELSE FromBlocks(data)

extractReplyFromResponses(data) ==
    IF data.nul THEN Null
    ELSE IF FromOutputText(data) # Null THEN FromOutputText(data)
    ELSE IF FromBlocks(data) # Null THEN FromBlocks(data)
    ELSE FromChoices(data)

-----------------------------------------------------------------------------
(* Inputs *)

Texts == {Undef} \cup {Str(s) : s \in SampleStrings}

\* values of choices[0].message.content
ChoiceVals == Texts \cup {ObjNoText} \cup {ObjText(s) : s \in SampleStrings}

Blocks == {Block(ty, tx) : ty \in BlockTypes, tx \in Texts}

BlockSeqs == UNION {[1..n -> Blocks] : n \in 0..MaxBlocks}

\* every payload the extractor is checked on
AllPayloads ==
    {NullPayload}
    \cup {Payload(ot, FALSE, <<>>, ch) : ot \in Texts, ch \in ChoiceVals}
    \cup {Payload(ot, TRUE, bl, ch) : ot \in Texts, bl \in BlockSeqs, ch \in ChoiceVals}

\* the payloads the completion endpoint answers with in the handler runs
HandlerPayloads ==
    { NullPayload,
      EmptyPayload,
      Payload(Str(<<" ", "b", " ">>), FALSE, <<>>, Undef),
      Payload(Undef, TRUE, <<Block("text", Str(<<"a">>))>>, Undef),
      Payload(Undef, FALSE, <<>>, Str(<<"a">>)),
      Payload(Undef, FALSE, <<>>, ObjText(<<" ">>)) }

\* the JSON body of a non-success answer of the provider: { error: {...} }
ErrorBody == EmptyPayload

Methods == {"POST", "GET"}

PersistVals == {Undef, JsTrue, JsFalse, Null, Str(<<"a">>)}

NoBody == [present |-> FALSE, message |-> Undef, persist |-> Undef, prompt |-> Undef]

Bodies ==
    {NoBody}
    \cup {[present |-> TRUE, message |-> m, persist |-> p, prompt |-> Undef] :
            m \in Texts, p \in PersistVals}

-----------------------------------------------------------------------------
(* State shared by the handlers *)

NoRes == [status |-> 0]

\* the database file as the process creates it: { actions: [], vulns: [] }
EmptyDB == [actions |-> <<>>, vulns |-> <<>>]

NoMemories == [isArray |-> TRUE, len |-> 0]
ArrayOf(n) == [isArray |-> TRUE, len |-> n]
\* a value that is no array (the { data: null, error } object, a JSON object)
NotAnArray == [isArray |-> FALSE, len |-> 0]

IssueEv(call) == [ev |-> "issue", call |-> call, out |-> "", n |-> 0]
ReturnEv(call, out, n) == [ev |-> "return", call |-> call, out |-> out, n |-> n]

\* the handler resumes from `call` with outcome `out` and, without yielding,
\* issues `next` and suspends on it
ThenAwait(call, out, n, next, nextPc) ==
    /\ trace' = trace \o <<ReturnEv(call, out, n), IssueEv(next)>>
    /\ inflight' = (inflight \ {call}) \cup {next}
    /\ pc' = nextPc

\* the handler resumes from `call` with outcome `out` and writes the response
ThenRespond(call, out, n, response) ==
    /\ trace' = Append(trace, ReturnEv(call, out, n))
    /\ inflight' = inflight \ {call}
    /\ pc' = "done"
    /\ res' = response

\* the handler answers before any await
RespondAtOnce(response) ==
    /\ res' = response
    /\ pc' = "done"
    /\ UNCHANGED <<trace, inflight>>

\* the handler issues its first external call
FirstAwait(next, nextPc) ==
    /\ trace' = Append(trace, IssueEv(next))
    /\ inflight' = inflight \cup {next}
    /\ pc' = nextPc
    /\ UNCHANGED res

-----------------------------------------------------------------------------
(* The memory-backed handler *)

\* (body.message || "").toString()
MessageOf(body) == IF Truthy(body.message) THEN body.message ELSE Str(<<>>)

\* body.persist === undefined ? true : !!body.persist
PersistOf(body) == IF body.persist = Undef THEN TRUE ELSE Truthy(body.persist)

\* !message || message.trim().length === 0
IsBlankMessage(m) == ~Truthy(m) \/ Trim(m.s) = <<>>

\* Array.isArray(memories) ? memories.length : 0
RetrievedCount(mem) == IF mem.isArray THEN mem.len ELSE 0

\* the reply kept as the extractor returned it (the "|| null" dropped)
OrNullDropped(v) == v

\* v || null
OrNull(v) == IF Truthy(v) THEN v ELSE Null

\* res.status(200).json({ reply, retrieved_count, memory_saved, audit_saved })
OkResponse(rep, mem, sm, sa) ==
    [status |-> 200, reply |-> rep, retrieved_count |-> RetrievedCount(mem),
     memory_saved |-> sm, audit_saved |-> sa]

\* the outer catch: res.status(500).json({ error: "Server error", detail })
ServerError == [status |-> 500, error |-> "Server error", detail |-> "err"]

\* the persist gate without the test that an embedding was computed
ShouldPersistNoEmbedding == PersistOf(req.body) /\ env.supabase

\* persist && supabase && embedding
ShouldPersist == PersistOf(req.body) /\ env.supabase /\ embedding = "vector"

EmbedOutcomes == {"vector", "no_vector", "http_error", "network_error", "bad_json"}
RpcOutcomes == {"rows", "bare_array", "error_result", "throws"}
FallbackOutcomes == {"rows", "object", "http_error", "network_error", "bad_json"}
CompleteOutcomes == {"payload", "http_error", "network_error", "bad_json"}
InsertOutcomes == {"ok", "error_result", "throws"}

\* entry of the handler, up to its first await
handler ==
    /\ variant = "memory"
    /\ pc = "idle"
    /\ \E m \in Methods, b \in Bodies :
        /\ req' = [method |-> m, body |-> b]
        /\ IF m # "POST"
           THEN RespondAtOnce([status |-> 405, error |-> "Method not allowed",
                               allow |-> "POST"])
           ELSE IF IsBlankMessage(MessageOf(b))
           THEN RespondAtOnce([status |-> 400, error |-> "Empty message"])
           ELSE IF ~env.OPENAI_API_KEY
           THEN RespondAtOnce([status |-> 500, error |-> "OpenAI key not configured"])
           ELSE IF env.supabase
           THEN FirstAwait("embed", "await_embed")
           ELSE FirstAwait("complete", "await_complete")
    /\ UNCHANGED <<dbFile, errFile, conn>>
    /\ UNCHANGED <<variant, env, embedding, memories, openaiResp, reply,
                   savedAudit, savedMemory>>

\* createEmbedding awaited outside the inner try: a throw reaches the outer catch
createEmbeddingFatal ==
    /\ variant = "memory"
    /\ pc = "await_embed"
    /\ \E out \in EmbedOutcomes :
        /\ embedding' = IF out = "vector" THEN "vector" ELSE "null"
        /\ IF out = "vector"
           THEN /\ ThenAwait("embed", out, 0, "rpc", "await_rpc")
                /\ UNCHANGED res
           ELSE IF out = "no_vector"
           THEN /\ ThenAwait("embed", out, 0, "complete", "await_complete")
                /\ UNCHANGED res
           ELSE ThenRespond("embed", out, 0,
                            [status |-> 500, error |-> "Server error", detail |-> "err"])
    /\ UNCHANGED <<dbFile, errFile, conn>>
    /\ UNCHANGED <<variant, env, req, memories, openaiResp, reply, savedAudit,
                   savedMemory>>

\* the similarity query and the completion call issued together
createEmbeddingThenBoth ==
    /\ variant = "memory"
    /\ pc = "await_embed"
    /\ \E out \in EmbedOutcomes :
        /\ embedding' = IF out = "vector" THEN "vector" ELSE "null"
        /\ IF out = "vector"
           THEN /\ trace' = trace \o <<ReturnEv("embed", out, 0), IssueEv("rpc"),
                                       IssueEv("complete")>>
                /\ inflight' = (inflight \ {"embed"}) \cup {"rpc", "complete"}
                /\ pc' = "await_complete"
           ELSE ThenAwait("embed", out, 0, "complete", "await_complete")
    /\ UNCHANGED <<dbFile, errFile, conn>>
    /\ UNCHANGED <<variant, env, req, memories, openaiResp, reply, savedAudit,
                   savedMemory, res>>

\* await createEmbedding(message) settles; on a vector the similarity query
\* is issued, otherwise the prompt is built and the completion call issued
createEmbeddingReturns ==
    /\ variant = "memory"
    /\ pc = "await_embed"
    /\ \E out \in EmbedOutcomes :
        /\ embedding' = IF out = "vector" THEN "vector" ELSE "null"
        /\ IF out = "vector"
           THEN ThenAwait("embed", out, 0, "rpc", "await_rpc")
           ELSE ThenAwait("embed", out, 0, "complete", "await_complete")
    /\ UNCHANGED <<dbFile, errFile, conn>>
    /\ UNCHANGED <<variant, env, req, memories, openaiResp, reply, savedAudit,
                   savedMemory, res>>

\* await supabase.rpc("match_memories", ...) settles
rpcReturns ==
    /\ variant = "memory"
    /\ pc = "await_rpc"
    /\ \E out \in RpcOutcomes, n \in 0..MaxMemories :
        /\ out \in {"error_result", "throws"} => n = 0
        /\ memories' = CASE out \in {"rows", "bare_array"} -> ArrayOf(n)
                         [] out = "error_result" -> NotAnArray
                         [] OTHER -> memories
        /\ IF out = "throws"
           THEN ThenAwait("rpc", out, n, "rpc_fallback", "await_rpc_fallback")
           ELSE ThenAwait("rpc", out, n, "complete", "await_complete")
    /\ UNCHANGED <<dbFile, errFile, conn>>
    /\ UNCHANGED <<variant, env, req, embedding, openaiResp, reply, savedAudit,
                   savedMemory, res>>

\* the REST fallback of the similarity query settles
rpcFallbackReturns ==
    /\ variant = "memory"
    /\ pc = "await_rpc_fallback"
    /\ \E out \in FallbackOutcomes, n \in 0..MaxMemories :
        /\ out # "rows" => n = 0
        /\ memories' = CASE out = "rows" -> ArrayOf(n)
                         [] out = "object" -> NotAnArray
                         [] OTHER -> memories
        /\ ThenAwait("rpc_fallback", out, n, "complete", "await_complete")
    /\ UNCHANGED <<dbFile, errFile, conn>>
    /\ UNCHANGED <<variant, env, req, embedding, openaiResp, reply, savedAudit,
                   savedMemory, res>>

\* await callResponsesAPI(payload) settles: fetch or r.json() throws into the
\* outer catch; any parsed body, whatever its HTTP status, is extracted from
callResponsesAPIReturns ==
    /\ variant = "memory"
    /\ pc = "await_complete"
    /\ \E out \in CompleteOutcomes, p \in HandlerPayloads :
        /\ out = "http_error" => p = ErrorBody
        /\ out \in {"network_error", "bad_json"} => p = NullPayload
        /\ IF out \in {"network_error", "bad_json"}
           THEN /\ ThenRespond("complete", out, 0, ServerError)
                /\ UNCHANGED <<openaiResp, reply>>
           ELSE /\ openaiResp' = p
                /\ reply' = OrNull(extractReplyFromResponses(p))
                /\ IF env.supabase
                   THEN /\ ThenAwait("complete", out, 0, "audit", "await_audit")
                        /\ UNCHANGED res
                   ELSE ThenRespond("complete", out, 0,
                                    OkResponse(reply', memories, FALSE, FALSE))
    /\ UNCHANGED <<dbFile, errFile, conn>>
    /\ UNCHANGED <<variant, env, req, embedding, memories, savedAudit, savedMemory>>

\* await supabase.from(MSG_TABLE).insert(...) settles
auditInsertReturns ==
    /\ variant = "memory"
    /\ pc = "await_audit"
    /\ \E out \in InsertOutcomes :
        /\ savedAudit' = (out # "throws")
        /\ IF ShouldPersist
           THEN /\ ThenAwait("audit", out, 0, "insert", "await_insert")
                /\ UNCHANGED res
           ELSE ThenRespond("audit", out, 0,
                            OkResponse(reply, memories, FALSE, savedAudit'))
    /\ UNCHANGED <<dbFile, errFile, conn>>
    /\ UNCHANGED <<variant, env, req, embedding, memories, openaiResp, reply,
                   savedMemory>>

\* the memory insert awaited outside its try: a throw reaches the outer catch
memoryInsertFatal ==
    /\ variant = "memory"
    /\ pc = "await_insert"
    /\ \E out \in InsertOutcomes :
        /\ savedMemory' = (out = "ok")
        /\ IF out = "throws"
           THEN ThenRespond("insert", out, 0,
                            [status |-> 500, error |-> "Server error", detail |-> "err"])
           ELSE ThenRespond("insert", out, 0,
                            OkResponse(reply, memories, savedMemory', savedAudit))
    /\ UNCHANGED <<dbFile, errFile, conn>>
    /\ UNCHANGED <<variant, env, req, embedding, memories, openaiResp, reply,
                   savedAudit>>

\* await supabase.from(MEMORY_TABLE).insert(...) settles
memoryInsertReturns ==
    /\ variant = "memory"
    /\ pc = "await_insert"
    /\ \E out \in InsertOutcomes :
        /\ savedMemory' = (out = "ok")
        /\ ThenRespond("insert", out, 0,
                       OkResponse(reply, memories, savedMemory', savedAudit))
    /\ UNCHANGED <<dbFile, errFile, conn>>
    /\ UNCHANGED <<variant, env, req, embedding, memories, openaiResp, reply,
                   savedAudit>>

NoReq == [method |-> "", body |-> NoBody]

Init ==
    /\ variant = "memory"
    /\ env \in [OPENAI_API_KEY : BOOLEAN, OPENAI_KEY : {FALSE}, supabase : BOOLEAN]
    /\ req = NoReq
    /\ pc = "idle"
    /\ inflight = {}
    /\ trace = <<>>
    /\ embedding = "null"
    /\ memories = NoMemories
    /\ openaiResp = NullPayload
    /\ reply = Undef
    /\ savedAudit = FALSE
    /\ savedMemory = FALSE
    /\ res = NoRes
    /\ dbFile = EmptyDB
    /\ errFile = <<>>
    /\ conn = <<>>

Next ==
    \/ handler
    \/ createEmbeddingReturns
    \/ rpcReturns
    \/ rpcFallbackReturns
    \/ callResponsesAPIReturns
    \/ auditInsertReturns
    \/ memoryInsertReturns

Spec == Init /\ [][Next]_vars

-----------------------------------------------------------------------------
(* The plain handlers of api/chat.js *)

\* the fallback text "Erro ao gerar resposta."
ErroAoGerar == Str(<<"E">>)

ChatBodies ==
    {NoBody}
    \cup {[present |-> TRUE, message |-> m, persist |-> Undef, prompt |-> q] :
            m \in Texts, q \in {Undef, Str(<<"a">>)}}

\* the text callOpenAI returns for a parsed body:
\* data.output_text, else data.output?.[0]?.content?.[0]?.text || fallback
callOpenAI(data) ==
    IF Truthy(data.output_text) THEN data.output_text
    ELSE IF data.hasContent /\ Len(data.content) >= 1 /\ Truthy(data.content[1].text)
    THEN data.content[1].text
    ELSE ErroAoGerar

ErroInterno == [status |-> 500, error |-> "Erro interno"]

\* entry of the Responses-API handler, up to the await of callOpenAI
handlerResponses ==
    /\ variant = "responses"
    /\ pc = "idle"
    /\ \E m \in Methods, b \in ChatBodies :
        /\ req' = [method |-> m, body |-> b]
        /\ IF m # "POST"
           THEN RespondAtOnce([status |-> 405, error |-> "Method not allowed"])
           ELSE IF ~b.present
           THEN RespondAtOnce(ErroInterno)
           ELSE IF ~Truthy(b.message)
           THEN RespondAtOnce([status |-> 400, error |-> "Mensagem vazia"])
           ELSE FirstAwait("complete", "await_callOpenAI")
    /\ UNCHANGED <<dbFile, errFile, conn>>
    /\ UNCHANGED <<variant, env, embedding, memories, openaiResp, reply,
                   savedAudit, savedMemory>>

\* await callOpenAI(messages) settles
callOpenAIReturns ==
    /\ variant = "responses"
    /\ pc = "await_callOpenAI"
    /\ \E out \in CompleteOutcomes, p \in HandlerPayloads :
        /\ out = "http_error" => p = ErrorBody
        /\ out \in {"network_error", "bad_json"} => p = NullPayload
        /\ IF out \in {"network_error", "bad_json"} \/ p.nul
           THEN /\ ThenRespond("complete", out, 0, ErroInterno)
                /\ UNCHANGED <<openaiResp, reply>>
           ELSE /\ openaiResp' = p
                /\ reply' = callOpenAI(p)
                /\ ThenRespond("complete", out, 0,
                               [status |-> 200, reply |-> reply'])
    /\ UNCHANGED <<dbFile, errFile, conn>>
    /\ UNCHANGED <<variant, env, req, embedding, memories, savedAudit, savedMemory>>

\* entry of the chat-completions handler, up to the await of fetch
handlerCompletions ==
    /\ variant = "completions"
    /\ pc = "idle"
    /\ \E m \in Methods, b \in ChatBodies :
        /\ req' = [method |-> m, body |-> b]
        /\ IF m # "POST"
           THEN RespondAtOnce([status |-> 405, error |-> "Method Not Allowed",
                               allow |-> "POST"])
           ELSE IF ~env.OPENAI_KEY
           THEN RespondAtOnce([status |-> 500,
                               error |-> "OpenAI API key not configured."])
           ELSE FirstAwait("complete", "await_completions")
    /\ UNCHANGED <<dbFile, errFile, conn>>
    /\ UNCHANGED <<variant, env, embedding, memories, openaiResp, reply,
                   savedAudit, savedMemory>>

\* await fetch(".../chat/completions") and response.json() settle
completionsReturns ==
    /\ variant = "completions"
    /\ pc = "await_completions"
    /\ \E out \in CompleteOutcomes, p \in HandlerPayloads :
        /\ out = "http_error" => p = ErrorBody
        /\ out \in {"network_error", "bad_json"} => p = NullPayload
        /\ IF out \in {"network_error", "bad_json"} \/ p.nul
           THEN /\ ThenRespond("complete", out, 0,
                               [status |-> 500, error |-> "Erro interno",
                                detail |-> "err"])
                /\ UNCHANGED <<openaiResp, reply>>
           ELSE /\ openaiResp' = p
                /\ reply' = IF Truthy(p.choices) THEN p.choices ELSE ErroAoGerar
                /\ ThenRespond("complete", out, 0,
                               [status |-> 200, text |-> reply'])
    /\ UNCHANGED <<dbFile, errFile, conn>>
    /\ UNCHANGED <<variant, env, req, embedding, memories, savedAudit, savedMemory>>

InitChat ==
    /\ variant \in {"responses", "completions"}
    /\ env \in [OPENAI_API_KEY : BOOLEAN, OPENAI_KEY : BOOLEAN, supabase : {FALSE}]
    /\ req = NoReq
    /\ pc = "idle"
    /\ inflight = {}
    /\ trace = <<>>
    /\ embedding = "null"
    /\ memories = NoMemories
    /\ openaiResp = NullPayload
    /\ reply = Undef
    /\ savedAudit = FALSE
    /\ savedMemory = FALSE
    /\ res = NoRes
    /\ dbFile = EmptyDB
    /\ errFile = <<>>
    /\ conn = <<>>

NextChat ==
    \/ handlerResponses
    \/ callOpenAIReturns
    \/ handlerCompletions
    \/ completionsReturns

SpecChat == InitChat /\ [][NextChat]_vars

-----------------------------------------------------------------------------
(* The reply extractor on its own: every payload, one application *)

applyExtract ==
    /\ variant = "extractor"
    /\ pc = "extract"
    /\ reply' = extractReplyFromResponses(openaiResp)
    /\ pc' = "extracted"
    /\ UNCHANGED <<dbFile, errFile, conn>>
    /\ UNCHANGED <<variant, env, req, inflight, trace, embedding, memories,
                   openaiResp, savedAudit, savedMemory, res>>

InitExtract ==
    /\ variant = "extractor"
    /\ env = [OPENAI_API_KEY |-> TRUE, OPENAI_KEY |-> FALSE, supabase |-> FALSE]
    /\ req = NoReq
    /\ pc = "extract"
    /\ inflight = {}
    /\ trace = <<>>
    /\ embedding = "null"
    /\ memories = NoMemories
    /\ openaiResp \in AllPayloads
    /\ reply = Undef
    /\ savedAudit = FALSE
    /\ savedMemory = FALSE
    /\ res = NoRes
    /\ dbFile = EmptyDB
    /\ errFile = <<>>
    /\ conn = <<>>

NextExtract == applyExtract

SpecExtract == InitExtract /\ [][NextExtract]_vars

-----------------------------------------------------------------------------
(* The file-backed Express variant: POST /api/chat.  Node runs one callback *)
(* at a time, so the code between two awaits is one step.                   *)

MaxRequests == 2   \* concurrent requests in the process
MaxStored == 1     \* entries of each kind already in the file at start

\* recentCount >= 5
FatigueThreshold == 5
\* (db.actions || []).slice(-6)
PatternWindow == 6

Reqs == 1..MaxRequests

\* the values of body.text: absent, and a text that safeStr trims
ExpressTexts == {Undef, Str(<<" ", "a", " ">>)}

\* the actions whose text is stored for shadow learning
LoggedActions == {"chat", "strategy", "simulate", "mirror"}

ExpressActions == LoggedActions \cup {"reportError", "getReport", "unknown"}

\* safeStr(s): (s || '').toString().trim()
safeStr(v) == IF Truthy(v) THEN Trim(v.s) ELSE <<>>

\* { text, action, ts }: id stands for the time stamp, 0 for a stored entry
ActionEntry(text, action, id) == [text |-> text, action |-> action, id |-> id]

\* { id, type, detail, ts }
VulnEntry(type, id) == [type |-> type, id |-> id]

\* db.actions = db.actions || []; db.actions.push(...) with push replaced by
\* an assignment of a fresh one-element list
pushActionOverwrites(db, text, action, id) ==
    [db EXCEPT !.actions = <<ActionEntry(text, action, id)>>]

\* db.actions = db.actions || []; db.actions.push({ text, action, ts })
pushAction(db, text, action, id) ==
    [db EXCEPT !.actions = Append(@, ActionEntry(text, action, id))]

\* the last n elements of a sequence: s.slice(-n)
LastN(s, n) == IF Len(s) <= n THEN s ELSE SubSeq(s, Len(s) - n + 1, Len(s))

\* detectPatternsAndVulns(db): pushes onto db.vulns and returns db as changed
detectPatternsAndVulns(db, id) ==
    LET last == LastN(db.actions, PatternWindow)
        dup == {last[i].text : i \in {k \in DOMAIN last :
                    /\ last[k].text # <<>>
                    /\ \E j \in 1..(k - 1) : last[j].text = last[k].text}}
        recentCount == Cardinality({i \in DOMAIN db.actions : db.actions[i].id # 0})
        v1 == IF dup # {} THEN <<VulnEntry("Repeticao de acao", id)>> ELSE <<>>
        v2 == IF recentCount >= FatigueThreshold
              THEN <<VulnEntry("Fadiga", id)>> ELSE <<>>
    IN  [db EXCEPT !.vulns = @ \o v1 \o v2]

NoConn == [pc |-> "none", action |-> "", text |-> <<>>, db |-> EmptyDB, res |-> NoRes]

\* the request r, its body parsed, enters the route handler: readDB,
\* readErrors, the logging write, and the whole of reportError / getReport
\* run without yielding; the four logged actions then await openaiComplete
postApiChat(r) ==
    /\ variant = "express"
    /\ conn[r].pc = "none"
    /\ \E a \in ExpressActions, t \in ExpressTexts :
        LET cleanText == safeStr(t)
            db0 == dbFile
            db1 == IF a \in LoggedActions THEN pushAction(db0, cleanText, a, r) ELSE db0
            db2 == [db1 EXCEPT !.vulns = Append(@, VulnEntry("Erro relatado", r))]
            db3 == detectPatternsAndVulns(db1, r)
            answer(c, response) ==
                [conn EXCEPT ![r] = [pc |-> c, action |-> a, text |-> cleanText,
                                     db |-> IF a = "reportError" /\ cleanText # <<>>
                                            THEN db2
                                            ELSE IF a = "getReport" THEN db3 ELSE db1,
                                     res |-> response]]
        IN  CASE a \in LoggedActions ->
                    /\ dbFile' = db1
                    /\ errFile' = errFile
                    /\ conn' = answer("await_openai", NoRes)
              [] a = "reportError" /\ cleanText = <<>> ->
                    /\ UNCHANGED <<dbFile, errFile>>
                    /\ conn' = answer("done", [status |-> 200, ok |-> FALSE])
              [] a = "reportError" /\ cleanText # <<>> ->
                    /\ errFile' = Append(errFile, [text |-> cleanText, id |-> r])
                    /\ dbFile' = db2
                    /\ conn' = answer("done", [status |-> 200, ok |-> TRUE])
              [] a = "getReport" ->
                    /\ dbFile' = db3
                    /\ errFile' = errFile
                    /\ conn' = answer("done",
                                 [status |-> 200, type |-> "report",
                                  totalActions |-> Len(db3.actions),
                                  totalErrs |-> Len(errFile),
                                  vulnerabilities |-> Len(db3.vulns)])
              [] OTHER ->
                    /\ UNCHANGED <<dbFile, errFile>>
                    /\ conn' = answer("done", [status |-> 400, error |-> "unknown action"])
    /\ UNCHANGED <<variant, env, req, pc, inflight, trace, embedding, memories,
                   openaiResp, reply, savedAudit, savedMemory, res>>

\* the action stored after the AI call: the local db, read before the await,
\* is written back when openaiComplete settles
openaiCompleteReturnsThenWrites(r) ==
    /\ variant = "express"
    /\ conn[r].pc = "await_openai"
    /\ \E ai \in IF env.OPENAI_API_KEY THEN BOOLEAN ELSE {FALSE} :
        conn' = [conn EXCEPT ![r].pc = "done",
                             ![r].res = [status |-> 200, type |-> conn[r].action,
                                         ai |-> ai]]
    /\ dbFile' = conn[r].db
    /\ UNCHANGED errFile
    /\ UNCHANGED <<variant, env, req, pc, inflight, trace, embedding, memories,
                   openaiResp, reply, savedAudit, savedMemory, res>>

\* await openaiComplete(...) settles (null at once when no key is set, null
\* on any failure, else the text) and the handler answers
openaiCompleteReturns(r) ==
    /\ variant = "express"
    /\ conn[r].pc = "await_openai"
    /\ \E ai \in IF env.OPENAI_API_KEY THEN BOOLEAN ELSE {FALSE} :
        conn' = [conn EXCEPT ![r].pc = "done",
                             ![r].res = [status |-> 200, type |-> conn[r].action,
                                         ai |-> ai]]
    /\ UNCHANGED <<dbFile, errFile>>
    /\ UNCHANGED <<variant, env, req, pc, inflight, trace, embedding, memories,
                   openaiResp, reply, savedAudit, savedMemory, res>>

\* the entries a database file holds when the process starts
StoredActions ==
    UNION {[1..n -> {ActionEntry(<<"a">>, "chat", 0)}] : n \in 0..MaxStored}

StoredVulns ==
    UNION {[1..n -> {VulnEntry("Erro relatado", 0)}] : n \in 0..MaxStored}

InitExpress ==
    /\ variant = "express"
    /\ env \in [OPENAI_API_KEY : BOOLEAN, OPENAI_KEY : {FALSE}, supabase : {FALSE}]
    /\ req = NoReq
    /\ pc = "idle"
    /\ inflight = {}
    /\ trace = <<>>
    /\ embedding = "null"
    /\ memories = NoMemories
    /\ openaiResp = NullPayload
    /\ reply = Undef
    /\ savedAudit = FALSE
    /\ savedMemory = FALSE
    /\ res = NoRes
    /\ dbFile \in [actions : StoredActions, vulns : StoredVulns]
    /\ errFile = <<>>
    /\ conn = [r \in Reqs |-> NoConn]

NextExpress ==
    \/ \E r \in Reqs : postApiChat(r)
    \/ \E r \in Reqs : openaiCompleteReturns(r)

SpecExpress == InitExpress /\ [][NextExpress]_vars

-----------------------------------------------------------------------------
(* Reading the history of external calls *)

Issued(call) ==
    \E i \in DOMAIN trace : trace[i].ev = "issue" /\ trace[i].call = call

ReturnedWith(call, outs) ==
    \E i \in DOMAIN trace :
        trace[i].ev = "return" /\ trace[i].call = call /\ trace[i].out \in outs

\* the completion call failed: network failure, non-success status, or a body
\* that does not parse
CompletionFailed ==
    ReturnedWith("complete", {"network_error", "http_error", "bad_json"})

\* the completion call succeeded: success status and a parsed body
CompletionSucceeded == ReturnedWith("complete", {"payload"})

\* the payload carries no non-blank text in any of the three shapes
NoNonBlankText(p) ==
    \/ p.nul
    \/ /\ ~(p.output_text.t = "string" /\ \E i \in DOMAIN p.output_text.s :
                                            p.output_text.s[i] # " ")
       /\ \A k \in DOMAIN p.content :
            ~(p.content[k].text.t = "string" /\ \E i \in DOMAIN p.content[k].text.s :
                                                  p.content[k].text.s[i] # " ")
       /\ ~(p.choices.t \in {"string", "object"} /\ \E i \in DOMAIN p.choices.s :
                                                      p.choices.s[i] # " ")

\* the embedding call or the similarity query failed
RetrievalFailed ==
    \/ ReturnedWith("embed", {"no_vector", "http_error", "network_error", "bad_json"})
    \/ ReturnedWith("rpc", {"error_result"})
    \/ ReturnedWith("rpc_fallback", {"http_error", "network_error", "bad_json"})

\* the request asks for persistence: persist absent or truthy
PersistRequested ==
    \/ ~req.body.present
    \/ req.body.persist.t = "undefined"
    \/ req.body.persist.t = "true"
    \/ req.body.persist.t = "string" /\ Len(req.body.persist.s) > 0

CallRank(call) ==
    CASE call = "embed" -> 1
      [] call = "rpc" -> 2
      [] call = "rpc_fallback" -> 3
      [] call = "complete" -> 4
      [] call = "audit" -> 5
      [] call = "insert" -> 6

-----------------------------------------------------------------------------
(* Claims on the memory-backed handler *)

\* C1: whenever the completion call of a request fails (network failure,
\* non-success HTTP status, unparsable payload) the handler answers 500 and
\* the memory insert is never performed, so memory_saved is never true.
C1_CompletionFailureIsFatal ==
    CompletionFailed =>
        /\ pc = "done" => res.status = 500
        /\ ~Issued("insert")
        /\ ~savedMemory

C6_RetrievalFailureNotFatal ==
    (env.supabase /\ RetrievalFailed) =>
        /\ RetrievedCount(memories) = 0
        /\ Issued("complete")
        /\ pc = "done" =>
              IF ReturnedWith("complete", {"network_error", "bad_json"})
              THEN res.status = 500
              ELSE res.status = 200 /\ res.retrieved_count = 0

C6_Witness ==
    /\ env.supabase
    /\ ReturnedWith("rpc_fallback", {"network_error"})
    /\ pc = "done"
    /\ res.status = 200
    /\ res.retrieved_count = 0
    /\ res.reply # Null

\* C7: from one and the same state awaiting the memory insert, every outcome
\* of the insert (success, error result, throw) yields the same status, reply,
\* retrieved_count and audit_saved, fixed before the insert; only memory_saved
\* differs, and it is true only when the insert succeeded.
C7_InsertOutcomeLeavesResponse ==
    [][pc = "await_insert" =>
         /\ pc' = "done"
         /\ res'.status = 200
         /\ res'.reply = reply
         /\ res'.retrieved_count = RetrievedCount(memories)
         /\ res'.audit_saved = savedAudit
         /\ res'.memory_saved = (trace'[Len(trace')].out = "ok")]_vars

C7_Witness ==
    /\ pc = "done"
    /\ ReturnedWith("insert", {"throws"})
    /\ res.status = 200
    /\ ~res.memory_saved
    /\ res.reply # Null

\* C8: the memory insert is attempted only when persistence is requested, a
\* memory store is configured and an embedding was computed; memory_saved is
\* true only if moreover the insert succeeded; without a memory store every
\* successful response has retrieved_count = 0 and memory_saved = false.
C8_PersistGate ==
    /\ Issued("insert") =>
          PersistRequested /\ env.supabase /\ ReturnedWith("embed", {"vector"})
    /\ (pc = "done" /\ res.status = 200 /\ res.memory_saved) =>
          /\ PersistRequested
          /\ env.supabase
          /\ ReturnedWith("embed", {"vector"})
          /\ ReturnedWith("insert", {"ok"})
    /\ (pc = "done" /\ res.status = 200 /\ ~env.supabase) =>
          res.retrieved_count = 0 /\ ~res.memory_saved

C8_Witness ==
    /\ pc = "done"
    /\ res.status = 200
    /\ res.memory_saved
    /\ req.body.persist = Str(<<"a">>)

\* C10: the external calls of a request form a sequential chain: at most one
\* is in flight; calls are issued in the order embed, retrieve, complete,
\* audit, persist, each after the previous one returned; the similarity query
\* only after the embedding call returned a vector; the memory insert only
\* after the completion call returned a body and the reply was extracted.
C10_SequentialChain ==
    /\ Cardinality(inflight) <= 1
    /\ \A i, j \in DOMAIN trace :
          (i < j /\ trace[i].ev = "issue" /\ trace[j].ev = "issue") =>
              /\ CallRank(trace[i].call) < CallRank(trace[j].call)
              /\ \E k \in (i + 1)..(j - 1) :
                    trace[k].ev = "return" /\ trace[k].call = trace[i].call
    /\ \A i \in DOMAIN trace :
          (trace[i].ev = "issue" /\ trace[i].call = "rpc") =>
              \E k \in 1..(i - 1) :
                  trace[k] = ReturnEv("embed", "vector", 0)
    /\ \A i \in DOMAIN trace :
          (trace[i].ev = "issue" /\ trace[i].call = "complete" /\ env.supabase) =>
              \E k \in 1..(i - 1) :
                  trace[k].ev = "return" /\ trace[k].call = "embed"
    /\ \A i \in DOMAIN trace :
          (trace[i].ev = "issue" /\ trace[i].call = "insert") =>
              /\ \E k \in 1..(i - 1) :
                    /\ trace[k].ev = "return"
                    /\ trace[k].call = "complete"
                    /\ trace[k].out \in {"payload", "http_error"}
              /\ reply # Undef

C10_Witness ==
    /\ pc = "done"
    /\ Issued("rpc_fallback")
    /\ ReturnedWith("insert", {"ok"})

\* C12: in every response audit_saved = true implies that a memory store is
\* configured and the audit insert returned no error; audit_saved is false
\* whenever that insert failed, by throwing or by returning an error result.
C12_AuditSavedMeansInserted ==
    (pc = "done" /\ res.status = 200) =>
        /\ res.audit_saved => env.supabase /\ ReturnedWith("audit", {"ok"})
        /\ ReturnedWith("audit", {"error_result", "throws"}) => ~res.audit_saved

-----------------------------------------------------------------------------
(* Claims on the plain handlers *)

\* the message of the request is missing, empty or whitespace-only
MessageBlank ==
    \/ ~req.body.present
    \/ req.body.message.t = "undefined"
    \/ /\ req.body.message.t = "string"
       /\ \A i \in DOMAIN req.body.message.s : req.body.message.s[i] = " "

\* the API key the serving handler reads is not set
KeyMissing ==
    IF variant = "completions" THEN ~env.OPENAI_KEY ELSE ~env.OPENAI_API_KEY

\* C2: a POST request whose message is missing, empty or whitespace-only is
\* answered 400 and no external call is made for it.
C2_BlankMessageRejected ==
    (variant = "responses" /\ req.method = "POST" /\ MessageBlank) =>
        /\ trace = <<>>
        /\ pc = "done" => res.status = 400

\* C9: with the API key missing, a POST request with a non-blank message is
\* answered 500 and no external call is made for it.
C9_MissingKeyIsServerError ==
    (KeyMissing /\ req.method = "POST" /\ ~MessageBlank) =>
        /\ trace = <<>>
        /\ pc = "done" => res.status = 500

-----------------------------------------------------------------------------
(* Claims on the reply extractor *)

\* v is a string with a non-whitespace character
NonBlank(v) == v.t = "string" /\ \E i \in DOMAIN v.s : v.s[i] # " "

\* r is s with its leading and trailing whitespace removed
IsTrimOf(r, s) ==
    /\ r # <<>> => r[1] # " " /\ r[Len(r)] # " "
    /\ \E i \in 0..Len(s) :
          /\ i + Len(r) <= Len(s)
          /\ \A k \in 1..Len(s) :
                IF k > i /\ k <= i + Len(r) THEN s[k] = r[k - i] ELSE s[k] = " "

\* the block of output[0].content that shape 2 names: the first one tagged
\* output_text with non-blank text, else the first one with non-blank text
PickedBlock(p) ==
    LET tagged == {k \in DOMAIN p.content :
                     p.content[k].type = "output_text" /\ NonBlank(p.content[k].text)}
        any == {k \in DOMAIN p.content : NonBlank(p.content[k].text)}
        from == IF tagged # {} THEN tagged ELSE any
    IN  CHOOSE k \in from : \A j \in from : k <= j

\* C3: the three shapes are tried in the order output_text, content blocks of
\* output[0], choices[0].message.content, and the result is the trimmed text
\* of the first shape that holds a non-blank text.
C3_FirstShapeWins ==
    (pc = "extracted" /\ ~openaiResp.nul) =>
        LET p == openaiResp
            s1 == NonBlank(p.output_text)
            s2 == \E k \in DOMAIN p.content : NonBlank(p.content[k].text)
            s3 == p.choices.t \in {"string", "object"} /\ NonBlank(Str(p.choices.s))
        IN  /\ s1 => reply.t = "string" /\ IsTrimOf(reply.s, p.output_text.s)
            /\ (~s1 /\ s2) =>
                  /\ reply.t = "string"
                  /\ IsTrimOf(reply.s, p.content[PickedBlock(p)].text.s)
            /\ (~s1 /\ ~s2 /\ s3) =>
                  reply.t = "string" /\ IsTrimOf(reply.s, p.choices.s)

C3_Witness ==
    /\ pc = "extracted"
    /\ openaiResp.output_text = Str(<<" ", "b", " ">>)
    /\ openaiResp.choices = Str(<<"a">>)
    /\ reply = Str(<<"b">>)

\* C4: the extractor returns null for the null payload, the empty payload and
\* every payload whose text fields are all blank, and never an empty string.
C4_BlankGivesNull ==
    pc = "extracted" =>
        /\ NoNonBlankText(openaiResp) => reply = Null
        /\ reply # Str(<<>>)

-----------------------------------------------------------------------------
(* Claims on the Express variant *)

IsPrefix(s, t) == Len(s) <= Len(t) /\ \A i \in DOMAIN s : t[i] = s[i]

\* the requests that entered the handler with a logged action
LoggedReqs == {r \in Reqs : conn[r].pc # "none" /\ conn[r].action \in LoggedActions}

\* C11: under any interleaving of concurrent requests no update to the
\* database file is lost: db.actions holds exactly one entry for each chat /
\* strategy / simulate / mirror request received and none for any other, and
\* no step removes or alters a stored action or vulnerability entry.
C11_NoLostUpdate ==
    /\ [](/\ \A r \in LoggedReqs :
                Cardinality({i \in DOMAIN dbFile.actions :
                               dbFile.actions[i].id = r}) = 1
          /\ \A i \in DOMAIN dbFile.actions :
                dbFile.actions[i].id = 0 \/ dbFile.actions[i].id \in LoggedReqs)
    /\ [][/\ IsPrefix(dbFile.actions, dbFile'.actions)
          /\ IsPrefix(dbFile.vulns, dbFile'.vulns)]_vars

\* two logged requests are suspended on the AI call at the same time, the
\* first holding a local db older than the file, whose stored entries and
\* both new entries are all present
C11_Witness ==
    /\ variant = "express"
    /\ \E r1, r2 \in Reqs :
          /\ r1 # r2
          /\ conn[r1].pc = "await_openai"
          /\ conn[r2].pc = "await_openai"
          /\ Len(conn[r1].db.actions) < Len(dbFile.actions)
    /\ Len(dbFile.actions) = MaxStored + 2

====
